---- MODULE Spec2Model ----
(***************************************************************************)
(* Verification model of the video-consultation client and its session     *)
(* signaling (ShomaShirai/Hackason).                                       *)
(*                                                                         *)
(* The module holds six sub-systems, each with its own specifications:      *)
(*   SpecQuality  ConnectionQualityMonitor (link-quality grade)            *)
(*   SpecError    MedicalVideoCall's ConnectionError / retry controller;   *)
(*                SpecClassify feeds it every cause of failure             *)
(*   SpecIce      the connection manager's ICE-candidate buffering         *)
(*   SpecSession  session bootstrap, registry (join/leave) and relay;      *)
(*                SpecRejoin adds clients whose transport attaches again   *)
(*   SpecCall     one client's call: bootstrap, manager, connection state, *)
(*                retry and hangup; SpecHangup is a single attempt and its *)
(*                hangup, SpecControls the mute controls                   *)
(*   SpecMedia    MediaManager and the tracks it acquires                  *)
(* All specifications share the variables; each moves only its own.        *)
(***************************************************************************)
EXTENDS Integers, Sequences, FiniteSets, TLC

NULL == [null |-> TRUE]

(***************************************************************************)
(* ---------------- State ----------------                                 *)
(***************************************************************************)
\* ConnectionQualityMonitor, one entry per monitor instance
VARIABLES
  metrics,        \* [Monitors -> sample | NULL]   the `metrics` prop
  qualityLevel,   \* [Monitors -> Grades]          useState('good')
  qualityEffect   \* [Monitors -> BOOLEAN]         effect on [metrics] pending

qualVars == <<metrics, qualityLevel, qualityEffect>>

\* MedicalVideoCall: ConnectionError and retry
VARIABLES
  networkError,     \* NULL | message                 useState<string | null>
  connectionError,  \* NULL | [message, type, timestamp, retryCount]
  reconnectTimer,   \* NULL | [due |-> time]          the pending setTimeout
  errorEffect,      \* BOOLEAN: the effect on [networkError] is pending
  now,              \* the clock (new Date())
  errorCreatedAt    \* when the surfaced ConnectionError was created (0 if none)

errVars == <<networkError, connectionError, reconnectTimer, errorEffect, now,
             errorCreatedAt>>

\* Connection manager: ICE candidates
VARIABLES
  remoteDescription,   \* "none" | "setting" | "set"
  pendingCandidates,   \* Seq: candidates buffered until the description is set
  appliedCandidates,   \* Seq: candidates handed to the peer connection
  receivedCandidates,  \* the candidates that have arrived so far
  earlyCandidates      \* those that arrived before the description was set

iceVars == <<remoteDescription, pendingCandidates, appliedCandidates, receivedCandidates,
            earlyCandidates>>

\* Session bootstrap, registry and relay
VARIABLES
  videoSessions,  \* rows of video_sessions: [id, appointmentId, status]
  participants,   \* the registry: [sessionId, userId, userType, role, joinedAt]
  joinClock,      \* [Clients -> the number of joins the registry served for it]
  mailbox,        \* [session id -> Seq(message)] held for a peer not yet joined
  uplink,         \* [Clients -> Seq] client -> relay, in sending order
  downlink,       \* [Clients -> Seq] relay -> client
  received,       \* [Clients -> Seq] messages handed to the client's manager
  dropped,        \* messages the relay discarded on mailbox overflow
  heldEver,       \* messages the relay has put into a mailbox so far
  cpc,            \* [Clients -> position in initializeSession]
  response,       \* [Clients -> NULL | HTTP response in flight]
  sessionData,    \* [Clients -> NULL | [sessionId]]    useState<SessionData>
  clientError,    \* [Clients -> NULL | message]        useState<string | null>
  offerTimer,     \* [Clients -> BOOLEAN] setTimeout(createOffer, 1000) pending
  sent            \* [Clients -> number of signaling messages sent]

sessVars == <<videoSessions, participants, joinClock, mailbox, uplink, downlink, received,
              dropped, heldEver, cpc, response, sessionData, clientError, offerTimer, sent>>

\* One client's call: MedicalVideoCall hosting CloudflareRealtimeVideo and the
\* connection managers it constructs
VARIABLES
  userType,           \* "patient" | "worker"        the userType prop, known at mount
  page,               \* "mounted" | "unmounted" | "unloaded"
  navigating,         \* BOOLEAN: the route set window.location.href
  initPc,             \* position in initializeSession
  callSession,        \* NULL | [sessionId]          useState<SessionData | null>
  webrtcManagerRef,   \* NoManager | manager id          useRef<WebRTCManager | null>
  mgr,                \* [ManagerIds -> manager with its media tracks]
  localStream,        \* NoStream | manager id: the stream that manager acquired
  connectionState,    \* useState<RTCPeerConnectionState>('new')
  iceConnectionState, \* useState<RTCIceConnectionState>('new')
  callError,          \* NULL | message              useState<string | null>
  showRetryButton,    \* useState(false)
  mediaControls,      \* [audio, video] of CloudflareRealtimeVideo
  hostMediaControls,  \* [audio, video] of MedicalVideoCall
  offerTimers,        \* managers with a pending setTimeout(createOffer, 1000)
  offersCreated,      \* managers that created an offer
  joined,             \* managers that attached to the signaling transport
  signalsSent,        \* number of signaling messages the managers sent
  hangups,            \* number of presses of the end-call button
  sessionEndCalls,    \* number of calls of the route's onSessionEnd
  hangupTimers,       \* number of pending setTimeout(endCall, 100)
  endRequests,        \* Seq: POST .../end requests without a response yet
  retryClicks,        \* number of presses of the 再接続を試す button since the mount
  toggleCalls         \* calls of videoRef.toggleAudio / toggleVideo the last press made

callVars == <<userType, page, navigating, initPc, callSession, webrtcManagerRef, mgr,
              localStream, connectionState, iceConnectionState, callError,
              showRetryButton, mediaControls, hostMediaControls, offerTimers,
              offersCreated, joined, signalsSent, hangups, sessionEndCalls,
              hangupTimers, endRequests, retryClicks, toggleCalls>>

\* MediaManager (services/media-manager.ts) and the tracks the browser gave it
VARIABLES
  tracks,             \* [audioTrack, videoTrack, screenTrack]: NoTrackRef | track id
  isInitialized,      \* private isInitialized = false
  trackKind,          \* [TrackIds -> "none" | "audio" | "video" | "screen"]: acquired as
  liveTracks,         \* the acquired tracks neither stopped nor ended
  lastOperation       \* the operation or event handled last

mediaVars == <<tracks, isInitialized, trackKind, liveTracks, lastOperation>>

vars == <<qualVars, errVars, iceVars, sessVars, callVars, mediaVars>>

\* What each sub-system leaves alone.
notQual == <<errVars, iceVars, sessVars, callVars, mediaVars>>
notErr == <<qualVars, iceVars, sessVars, callVars, mediaVars>>
notIce == <<qualVars, errVars, sessVars, callVars, mediaVars>>
notSess == <<qualVars, errVars, iceVars, callVars, mediaVars>>
notCall == <<qualVars, errVars, iceVars, sessVars, mediaVars>>
notMedia == <<qualVars, errVars, iceVars, sessVars, callVars>>

(***************************************************************************)
(* ---------------- ConnectionQualityMonitor ----------------              *)
(* Units: packetLossRate in 1/1000 (0.01 = 10), rtt in ms, jitter in ms    *)
(* (the code holds jitter in seconds: 0.01 s = 10).                        *)
(***************************************************************************)

\* Two monitor instances: fed different histories, they let stateless
\* classification be stated over one behaviour.
Monitors == {"m1", "m2"}
Grades == {"excellent", "good", "fair", "poor"}

LossExcellent == 10
LossGood == 30
LossFair == 50
RttExcellent == 100
RttGood == 200
RttFair == 300
JitterExcellent == 10
JitterGood == 20
JitterFair == 30

\* The values a sample's fields are drawn from: both sides of every threshold.
LossValues == {0, 9, 10, 11, 30, 50}
RttValues == {90, 100, 200, 300}
JitterValues == {5, 10, 20, 30}
Samples == [packetLossRate : LossValues, rtt : RttValues, jitter : JitterValues]
\* The samples the two-monitor specification draws from.
PairSamples == [packetLossRate : {9, 11, 50}, rtt : {90, 300}, jitter : {5, 30}]

\* A grade one step away from `prev` in the direction of `target`
\* (a smoothing monitor; used as a mutant of the effect).
GradeRank(g) == CASE g = "excellent" -> 0 [] g = "good" -> 1 [] g = "fair" -> 2 [] OTHER -> 3
GradeOfRank(n) == CHOOSE g \in Grades : GradeRank(g) = n
StepToward(prev, target) ==
  IF GradeRank(target) > GradeRank(prev) THEN GradeOfRank(GradeRank(prev) + 1)
  ELSE IF GradeRank(target) < GradeRank(prev) THEN GradeOfRank(GradeRank(prev) - 1)
  ELSE prev

\* Mutant: non-strict comparisons.
QualityOfNonStrict(m) ==
  IF m.packetLossRate <= LossExcellent /\ m.rtt <= RttExcellent /\ m.jitter <= JitterExcellent
    THEN "excellent"
  ELSE IF m.packetLossRate <= LossGood /\ m.rtt <= RttGood /\ m.jitter <= JitterGood
    THEN "good"
  ELSE IF m.packetLossRate <= LossFair /\ m.rtt <= RttFair /\ m.jitter <= JitterFair
    THEN "fair"
  ELSE "poor"

\* The if / else-if cascade of the quality effect.
QualityOf(m) ==
  IF m.packetLossRate < LossExcellent /\ m.rtt < RttExcellent /\ m.jitter < JitterExcellent
    THEN "excellent"
  ELSE IF m.packetLossRate < LossGood /\ m.rtt < RttGood /\ m.jitter < JitterGood
    THEN "good"
  ELSE IF m.packetLossRate < LossFair /\ m.rtt < RttFair /\ m.jitter < JitterFair
    THEN "fair"
  ELSE "poor"

\* Mutant: the new grade moves one step from the previous grade (hysteresis).
NextQualityLevelSmoothed(prev, m) == StepToward(prev, QualityOf(m))

\* The grade the effect stores: it never reads the previous qualityLevel.
NextQualityLevel(prev, m) == QualityOf(m)

QualityInit ==
  /\ metrics = [k \in Monitors |-> NULL]
  /\ qualityLevel = [k \in Monitors |-> "good"]
  /\ qualityEffect = [k \in Monitors |-> FALSE]

\* The host passes a new metrics sample (setConnectionMetrics): a new object
\* even when its values repeat, so the effect on [metrics] is scheduled.
SetMetrics(k, s) ==
  /\ ~qualityEffect[k]
  /\ metrics' = [metrics EXCEPT ![k] = s]
  /\ qualityEffect' = [qualityEffect EXCEPT ![k] = TRUE]
  /\ UNCHANGED qualityLevel
  /\ UNCHANGED notQual

\* useEffect(() => {...}, [metrics])
QualityEffect(k) ==
  /\ qualityEffect[k]
  /\ qualityEffect' = [qualityEffect EXCEPT ![k] = FALSE]
  /\ qualityLevel' = IF metrics[k] = NULL THEN qualityLevel
                     ELSE [qualityLevel EXCEPT ![k] = NextQualityLevel(qualityLevel[k], metrics[k])]
  /\ UNCHANGED metrics
  /\ UNCHANGED notQual

\* What the monitor renders: nothing without metrics, else the stored grade.
ShownGrade(k) == IF metrics[k] = NULL THEN NULL ELSE [grade |-> qualityLevel[k]]

(***************************************************************************)
(* ---------------- MedicalVideoCall: ConnectionError and retry ----------- *)
(* Time is counted in seconds.  A message is modelled by the set of the    *)
(* keywords String.includes() finds in it:                                 *)
(*   camera = カメラ, microphone = マイク, permission = 権限,               *)
(*   device = デバイス, server = サーバー, API = API,                       *)
(*   network = ネットワーク, connection = 接続                              *)
(***************************************************************************)

MaxTime == 12
RetryCap == 3
AutoDismissSeconds == 10

Min(a, b) == IF a < b THEN a ELSE b

\* '接続に失敗しました。', '接続が失われました。ネットワークを確認してください。',
\* 'カメラまたはマイクにアクセスできません', 'サーバーエラー', and a message with
\* none of the keywords.
Messages ==
  { [words |-> w] : w \in { {"connection"}, {"connection", "network"},
                            {"camera", "microphone"}, {"server"}, {} } }

\* The failures of a call by cause, each with the message the code gives it:
\* the media-access denial ('カメラまたはマイク...'), no camera found
\* ('...カメラデバイスが見つかりませんでした。'), camera in use ('...カメラが他の
\* アプリケーションで使用中です。'), the create request refused
\* (errorData.error || 'Failed to create session'), a server fault reported
\* in the banner's wording ('サーバーエラー'), the connection failed or lost,
\* and a failure with none of the keywords.
RawFailures ==
  { [cause |-> "media-denied",   message |-> [words |-> {"camera", "microphone"}]],
    [cause |-> "no-device",      message |-> [words |-> {"camera", "device"}]],
    [cause |-> "device-busy",    message |-> [words |-> {"camera", "in use"}]],
    [cause |-> "bootstrap",      message |-> [words |-> {"Failed to create session"}]],
    [cause |-> "server",         message |-> [words |-> {"server"}]],
    [cause |-> "attach",         message |-> [words |-> {"network"}]],
    [cause |-> "connection",     message |-> [words |-> {"connection"}]],
    [cause |-> "other",          message |-> [words |-> {}]] }

\* The cause a message was raised for.
CauseOf(msg) == (CHOOSE f \in RawFailures : f.message = msg).cause

\* The kind each cause is to be shown as.
KindOfCause(cause) ==
  CASE cause = "media-denied" -> "permission"
    [] cause \in {"no-device", "device-busy"} -> "device"
    [] cause \in {"bootstrap", "server"} -> "server"
    [] cause \in {"attach", "connection"} -> "network"
    [] OTHER -> "unknown"

\* message.includes(keyword)
Includes(msg, keyword) == keyword \in msg.words

ErrorTypes == {"network", "permission", "device", "server", "unknown"}

\* The if / else-if chain that picks errorType from the message.
ErrorTypeOf(msg) ==
  IF Includes(msg, "camera") \/ Includes(msg, "microphone") \/ Includes(msg, "permission")
    THEN "permission"
  ELSE IF Includes(msg, "device") \/ Includes(msg, "camera") \/ Includes(msg, "microphone")
    THEN "device"
  ELSE IF Includes(msg, "server") \/ Includes(msg, "API") THEN "server"
  ELSE IF Includes(msg, "network") \/ Includes(msg, "connection") THEN "network"
  ELSE "unknown"

\* Mutant: the increment without the cap.
RetriedUncapped(prev, t) ==
  [prev EXCEPT !.retryCount = prev.retryCount + 1, !.timestamp = t]

\* prev => ({...prev, retryCount: Math.min(prev.retryCount + 1, 3), timestamp: new Date()})
Retried(prev, t) ==
  [prev EXCEPT !.retryCount = Min(prev.retryCount + 1, RetryCap), !.timestamp = t]

\* The retry button of ConnectionErrorHandler: rendered whenever an error is
\* surfaced, with no `disabled` attribute.
RetryButtonEnabled == connectionError # NULL

ErrorInit ==
  /\ networkError = NULL
  /\ connectionError = NULL
  /\ reconnectTimer = NULL
  /\ errorEffect = FALSE
  /\ now = 0
  /\ errorCreatedAt = 0

\* setNetworkError(message): a failure is reported to the component.
\* Setting the value already held schedules nothing.
ReportFailure(msg) ==
  /\ ~errorEffect
  /\ networkError # msg
  /\ networkError' = msg
  /\ errorEffect' = TRUE
  /\ UNCHANGED <<connectionError, reconnectTimer, now, errorCreatedAt>>
  /\ UNCHANGED notErr

\* Mutant: the effect without its cleanup; a timeout already set stays set
\* when networkError goes back to null.
NetworkErrorEffectNoCleanup ==
  /\ errorEffect
  /\ errorEffect' = FALSE
  /\ IF networkError # NULL
       THEN /\ connectionError' = [message |-> networkError,
                                   type |-> ErrorTypeOf(networkError),
                                   timestamp |-> now,
                                   retryCount |-> 0]
            /\ reconnectTimer' = [due |-> now + AutoDismissSeconds]
            /\ errorCreatedAt' = now
       ELSE UNCHANGED <<connectionError, reconnectTimer, errorCreatedAt>>
  /\ UNCHANGED <<networkError, now>>
  /\ UNCHANGED notErr

\* useEffect(() => {...; return () => clearTimeout(reconnectTimer)}, [networkError]):
\* the previous run's cleanup, then the body.
NetworkErrorEffect ==
  /\ errorEffect
  /\ errorEffect' = FALSE
  /\ IF networkError # NULL
       THEN /\ connectionError' = [message |-> networkError,
                                   type |-> ErrorTypeOf(networkError),
                                   timestamp |-> now,
                                   retryCount |-> 0]
            /\ reconnectTimer' = [due |-> now + AutoDismissSeconds]
            /\ errorCreatedAt' = now
       ELSE /\ reconnectTimer' = NULL
            /\ UNCHANGED <<connectionError, errorCreatedAt>>
  /\ UNCHANGED <<networkError, now>>
  /\ UNCHANGED notErr

\* onRetry of the error banner.
handleErrorRetry ==
  /\ ~errorEffect
  /\ RetryButtonEnabled
  /\ connectionError' = Retried(connectionError, now)
  /\ networkError' = NULL
  /\ errorEffect' = (networkError # NULL)
  /\ UNCHANGED <<reconnectTimer, now, errorCreatedAt>>
  /\ UNCHANGED notErr

\* onDismiss of the error banner.
handleErrorDismiss ==
  /\ ~errorEffect
  /\ connectionError # NULL
  /\ connectionError' = NULL
  /\ networkError' = NULL
  /\ errorEffect' = (networkError # NULL)
  /\ errorCreatedAt' = 0
  /\ UNCHANGED <<reconnectTimer, now>>
  /\ UNCHANGED notErr

\* The setTimeout callback, 10 s after the effect body ran.
ReconnectTimerFire ==
  /\ ~errorEffect
  /\ reconnectTimer # NULL
  /\ now >= reconnectTimer.due
  /\ reconnectTimer' = NULL
  /\ networkError' = NULL
  /\ connectionError' = NULL
  /\ errorEffect' = (networkError # NULL)
  /\ errorCreatedAt' = 0
  /\ UNCHANGED now
  /\ UNCHANGED notErr

\* A second passes; a due timer fires before time moves on.
Tick ==
  /\ ~errorEffect
  /\ now < MaxTime
  /\ reconnectTimer # NULL => now < reconnectTimer.due
  /\ now' = now + 1
  /\ UNCHANGED <<networkError, connectionError, reconnectTimer, errorEffect,
                 errorCreatedAt>>
  /\ UNCHANGED notErr

(***************************************************************************)
(* ---------------- Connection manager: ICE candidates -------------------- *)
(* One manager's handling of remote signaling: a remote description and    *)
(* MaxCandidates remote candidates arrive in any order.                    *)
(***************************************************************************)

MaxCandidates == 4
Candidates == 1..MaxCandidates

SeqToSet(q) == {q[i] : i \in 1..Len(q)}

IceInit ==
  /\ remoteDescription = "none"
  /\ pendingCandidates = <<>>
  /\ appliedCandidates = <<>>
  /\ receivedCandidates = {}
  /\ earlyCandidates = {}

\* Mutant: a candidate that arrives before the remote description is set is
\* handed to the peer connection, which rejects it: it is lost.
HandleCandidateNoBuffer(c) ==
  /\ c \notin receivedCandidates
  /\ receivedCandidates' = receivedCandidates \cup {c}
  /\ earlyCandidates' = IF remoteDescription = "set" THEN earlyCandidates
                        ELSE earlyCandidates \cup {c}
  /\ IF remoteDescription = "set"
       THEN appliedCandidates' = Append(appliedCandidates, c)
       ELSE UNCHANGED appliedCandidates
  /\ UNCHANGED <<pendingCandidates, remoteDescription>>
  /\ UNCHANGED notIce

\* An ice-candidate message arrives.
HandleCandidate(c) ==
  /\ c \notin receivedCandidates
  /\ receivedCandidates' = receivedCandidates \cup {c}
  /\ earlyCandidates' = IF remoteDescription = "set" THEN earlyCandidates
                        ELSE earlyCandidates \cup {c}
  /\ IF remoteDescription = "set"
       THEN /\ appliedCandidates' = Append(appliedCandidates, c)
            /\ UNCHANGED pendingCandidates
       ELSE /\ pendingCandidates' = Append(pendingCandidates, c)
            /\ UNCHANGED appliedCandidates
  /\ UNCHANGED remoteDescription
  /\ UNCHANGED notIce

\* An offer or answer arrives: setRemoteDescription is started.
HandleRemoteDescription ==
  /\ remoteDescription = "none"
  /\ remoteDescription' = "setting"
  /\ UNCHANGED <<pendingCandidates, appliedCandidates, receivedCandidates, earlyCandidates>>
  /\ UNCHANGED notIce

\* setRemoteDescription has completed: the buffered candidates are applied,
\* oldest first.
RemoteDescriptionSet ==
  /\ remoteDescription = "setting"
  /\ remoteDescription' = "set"
  /\ appliedCandidates' = appliedCandidates \o pendingCandidates
  /\ pendingCandidates' = <<>>
  /\ UNCHANGED <<receivedCandidates, earlyCandidates>>
  /\ UNCHANGED notIce

(***************************************************************************)
(* ---------------- Session bootstrap, registry and relay ----------------- *)
(* Clients run CloudflareRealtimeVideo.initializeSession against the       *)
(* bootstrap endpoint and the video_sessions table; an attached manager    *)
(* exchanges signaling messages through the session's relay.               *)
(* Appointment 1 has a patient and a worker, appointment 2 a patient.      *)
(***************************************************************************)

MaxSend == 2
MailboxCap == 1
MaxJoins == 2

Clients == {"patient-1", "worker-1", "patient-2"}
Appointments == {1, 2}
UserTypeOf(c) == IF c = "worker-1" THEN "worker" ELSE "patient"
AppointmentOf(c) == IF c = "patient-2" THEN 2 ELSE 1

\* Session ids the server issues (one per row), and crypto.randomUUID() of a client.
ServerIds == <<"S1", "S2", "S3">>
RandomUUID(c) ==
  CASE c = "patient-1" -> "uuid-a" [] c = "worker-1" -> "uuid-b" [] OTHER -> "uuid-c"
AllSessionIds == SeqToSet(ServerIds) \cup {RandomUUID(c) : c \in Clients}

SessionExistsError == [words |-> {"Session already exists"}]

\* Mutant: the role follows join order (first to join initiates).
IsInitiatorFirstJoiner(c) ==
  ~\E p \in participants :
      /\ sessionData[c] # NULL
      /\ p.sessionId = sessionData[c].sessionId
      /\ p.userId # c

\* const isInitiator = userType === 'patient'
IsInitiator(c) == UserTypeOf(c) = "patient"

RoleOf(c) == IF IsInitiator(c) THEN "initiator" ELSE "responder"

\* Rows of an appointment whose session has not ended.
ActiveSessions(a) == {r \in videoSessions : r.appointmentId = a /\ r.status # "ended"}

\* Mutant: no unique index on appointment_id.
UniqueAppointmentOkNoIndex(a) == TRUE

\* appointment_id ... .unique(): an insert succeeds only if no row has the id.
UniqueAppointmentOk(a) == ~\E r \in videoSessions : r.appointmentId = a

\* Mutant: the session id is always generated on the client.
ResponseSessionIdRandom(c, resp) == RandomUUID(c)

\* sessionId: responseData.session?.id || crypto.randomUUID()
ResponseSessionId(c, resp) ==
  IF resp.session # NULL THEN resp.session.id ELSE RandomUUID(c)

\* Mutant: the catch block looks for another wording of the error.
IsExistingSessionErrorOtherWording(msg) == Includes(msg, "Session exists")

\* errorMessage.includes('Session already exists') ||
\* errorMessage.includes('User is already in the session')
IsExistingSessionError(msg) ==
  Includes(msg, "Session already exists") \/ Includes(msg, "User is already in the session")

SessionInit ==
  /\ videoSessions = {}
  /\ participants = {}
  /\ joinClock = [c \in Clients |-> 0]
  /\ mailbox = [s \in AllSessionIds |-> <<>>]
  /\ uplink = [c \in Clients |-> <<>>]
  /\ downlink = [c \in Clients |-> <<>>]
  /\ received = [c \in Clients |-> <<>>]
  /\ dropped = {}
  /\ heldEver = {}
  /\ cpc = [c \in Clients |-> "idle"]
  /\ response = [c \in Clients |-> NULL]
  /\ sessionData = [c \in Clients |-> NULL]
  /\ clientError = [c \in Clients |-> NULL]
  /\ offerTimer = [c \in Clients |-> FALSE]
  /\ sent = [c \in Clients |-> 0]

relayVars == <<participants, joinClock, mailbox, uplink, downlink, received, dropped, heldEver,
               offerTimer, sent>>

\* initializeSession up to the POST .../realtime/create {appointmentId}.
initializeSession(c) ==
  /\ cpc[c] = "idle"
  /\ cpc' = [cpc EXCEPT ![c] = "creating"]
  /\ clientError' = [clientError EXCEPT ![c] = NULL]
  /\ UNCHANGED <<videoSessions, response, sessionData, relayVars>>
  /\ UNCHANGED notSess

\* Bootstrap endpoint, first step: look for the appointment's session; an
\* existing one is returned (join semantics).
CreateLookup(c) ==
  /\ cpc[c] = "creating"
  /\ IF ActiveSessions(AppointmentOf(c)) # {}
       THEN /\ cpc' = [cpc EXCEPT ![c] = "responded"]
            /\ response' = [response EXCEPT ![c] =
                 [ok |-> TRUE,
                  session |-> [id |-> (CHOOSE r \in ActiveSessions(AppointmentOf(c)) : TRUE).id],
                  error |-> NULL]]
       ELSE /\ cpc' = [cpc EXCEPT ![c] = "inserting"]
            /\ UNCHANGED response
  /\ UNCHANGED <<videoSessions, sessionData, clientError, relayVars>>
  /\ UNCHANGED notSess

\* Bootstrap endpoint, second step: insert the row; the unique index on
\* appointment_id rejects a second row.
CreateInsert(c) ==
  /\ cpc[c] = "inserting"
  /\ cpc' = [cpc EXCEPT ![c] = "responded"]
  /\ IF UniqueAppointmentOk(AppointmentOf(c))
       THEN LET id == ServerIds[Cardinality(videoSessions) + 1] IN
            /\ videoSessions' = videoSessions \cup
                 {[id |-> id, appointmentId |-> AppointmentOf(c), status |-> "waiting"]}
            /\ response' = [response EXCEPT ![c] =
                 [ok |-> TRUE, session |-> [id |-> id], error |-> NULL]]
       ELSE /\ UNCHANGED videoSessions
            /\ response' = [response EXCEPT ![c] =
                 [ok |-> FALSE, session |-> NULL, error |-> SessionExistsError]]
  /\ UNCHANGED <<sessionData, clientError, relayVars>>
  /\ UNCHANGED notSess

\* The response of create reaches initializeSession: setSessionData and the
\* construction of the manager, or the catch block.
OnCreateResponse(c) ==
  /\ cpc[c] = "responded"
  /\ response' = [response EXCEPT ![c] = NULL]
  /\ IF response[c].ok
       THEN /\ sessionData' = [sessionData EXCEPT ![c] =
                 [sessionId |-> ResponseSessionId(c, response[c])]]
            /\ cpc' = [cpc EXCEPT ![c] = "initializing"]
            /\ UNCHANGED clientError
       ELSE IF IsExistingSessionError(response[c].error)
         THEN /\ cpc' = [cpc EXCEPT ![c] = "joining"]
              /\ UNCHANGED <<sessionData, clientError>>
         ELSE /\ clientError' = [clientError EXCEPT ![c] = response[c].error]
              /\ sessionData' = [sessionData EXCEPT ![c] = NULL]
              /\ cpc' = [cpc EXCEPT ![c] = "error"]
  /\ UNCHANGED <<videoSessions, relayVars>>
  /\ UNCHANGED notSess

\* Bootstrap endpoint with action 'join': the appointment's session.
JoinServe(c) ==
  /\ cpc[c] = "joining"
  /\ cpc' = [cpc EXCEPT ![c] = "joinResponded"]
  /\ response' = [response EXCEPT ![c] =
       IF ActiveSessions(AppointmentOf(c)) # {}
         THEN [ok |-> TRUE,
               session |-> [id |-> (CHOOSE r \in ActiveSessions(AppointmentOf(c)) : TRUE).id],
               error |-> NULL]
         ELSE [ok |-> FALSE, session |-> NULL, error |-> SessionExistsError]]
  /\ UNCHANGED <<videoSessions, sessionData, clientError, relayVars>>
  /\ UNCHANGED notSess

\* The join fallback of the catch block: on success setSessionData(joinData),
\* setError(null) and return; no manager is constructed on this path.
OnJoinResponse(c) ==
  /\ cpc[c] = "joinResponded"
  /\ response' = [response EXCEPT ![c] = NULL]
  /\ IF response[c].ok
       THEN /\ sessionData' = [sessionData EXCEPT ![c] = [sessionId |-> response[c].session.id]]
            /\ clientError' = [clientError EXCEPT ![c] = NULL]
            /\ cpc' = [cpc EXCEPT ![c] = "joined"]
       ELSE /\ clientError' = [clientError EXCEPT ![c] = SessionExistsError]
            /\ sessionData' = [sessionData EXCEPT ![c] = NULL]
            /\ cpc' = [cpc EXCEPT ![c] = "error"]
  /\ UNCHANGED <<videoSessions, relayVars>>
  /\ UNCHANGED notSess

bootVars == <<videoSessions, response, sessionData, clientError>>

Message(c, kind) ==
  [sessionId |-> sessionData[c].sessionId, senderId |-> c, kind |-> kind,
   sentAt |-> sent[c] + 1]

\* The joined participants of session s.
ParticipantsOf(s) == {p \in participants : p.sessionId = s}

\* Mutant: relay to every joined participant, the sender included.
RelayTargetsAll(s, sender) == {p.userId : p \in ParticipantsOf(s)}

\* relay(sessionId, message) delivers to all other joined participants.
RelayTargets(s, sender) == {p.userId : p \in ParticipantsOf(s)} \ {sender}

\* Mutant: join hands the held messages over and keeps them in the mailbox.
MailboxAfterJoinKeepsAll(s, c) == mailbox[s]

\* What stays in the mailbox of s when c joins: the messages c sent itself.
MailboxAfterJoin(s, c) ==
  LET Own(m) == m.senderId = c IN SelectSeq(mailbox[s], Own)

\* Mutant: join empties the mailbox without handing the held messages over.
MailboxForNone(s, c) == <<>>

\* What c is handed from the mailbox of s when it joins, oldest first.
MailboxFor(s, c) ==
  LET Foreign(m) == m.senderId # c IN SelectSeq(mailbox[s], Foreign)

\* Mutant: join adds an entry without looking for the participant's own.
ParticipantsAfterJoinAppends(s, c, t) ==
  participants \cup
    {[sessionId |-> s, userId |-> c, userType |-> UserTypeOf(c), role |-> RoleOf(c),
      joinedAt |-> t]}

\* join(sessionId, participant) at time t (counted in the participant's
\* joins): its entry is put in place of the one it may already have.
ParticipantsAfterJoin(s, c, t) ==
  {p \in participants : ~(p.sessionId = s /\ p.userId = c)} \cup
    {[sessionId |-> s, userId |-> c, userType |-> UserTypeOf(c), role |-> RoleOf(c),
      joinedAt |-> t]}

\* manager.initialize(token, isInitiator): media is acquired and the manager
\* attaches to the session's relay (join); the patient then schedules
\* createOffer one second later.
ManagerInitialize(c) ==
  /\ cpc[c] = "initializing"
  /\ LET s == sessionData[c].sessionId IN
       /\ participants' = ParticipantsAfterJoin(s, c, joinClock[c] + 1)
       /\ joinClock' = [joinClock EXCEPT ![c] = @ + 1]
       /\ downlink' = [downlink EXCEPT ![c] = @ \o MailboxFor(s, c)]
       /\ mailbox' = [mailbox EXCEPT ![s] = MailboxAfterJoin(s, c)]
  /\ cpc' = [cpc EXCEPT ![c] = "attached"]
  /\ offerTimer' = [offerTimer EXCEPT ![c] = (UserTypeOf(c) = "patient")]
  /\ UNCHANGED <<bootVars, uplink, received, dropped, heldEver, sent>>
  /\ UNCHANGED notSess

\* The transport of an attached client attaches again (a reconnect, or a new
\* attempt of the same user): the registry serves a join for a participant
\* it already has.
Rejoin(c) ==
  /\ cpc[c] = "attached"
  /\ joinClock[c] < MaxJoins
  /\ LET s == sessionData[c].sessionId IN
       /\ participants' = ParticipantsAfterJoin(s, c, joinClock[c] + 1)
       /\ joinClock' = [joinClock EXCEPT ![c] = @ + 1]
       /\ downlink' = [downlink EXCEPT ![c] = @ \o MailboxFor(s, c)]
       /\ mailbox' = [mailbox EXCEPT ![s] = MailboxAfterJoin(s, c)]
  /\ UNCHANGED <<bootVars, cpc, uplink, received, dropped, heldEver, offerTimer, sent>>
  /\ UNCHANGED notSess

\* setTimeout(() => manager.createOffer(), 1000): an attached manager sends
\* the offer; a detached one has no transport to send on.
CreateOfferTimer(c) ==
  /\ offerTimer[c]
  /\ offerTimer' = [offerTimer EXCEPT ![c] = FALSE]
  /\ IF cpc[c] = "attached"
       THEN /\ uplink' = [uplink EXCEPT ![c] = Append(@, Message(c, "offer"))]
            /\ sent' = [sent EXCEPT ![c] = @ + 1]
       ELSE UNCHANGED <<uplink, sent>>
  /\ UNCHANGED <<bootVars, cpc, participants, joinClock, mailbox, downlink, received, dropped, heldEver>>
  /\ UNCHANGED notSess

\* Trickle ICE: a candidate is discovered once the local description is set
\* (the offer or the answer has been sent) and is relayed.
SendCandidate(c) ==
  /\ cpc[c] = "attached"
  /\ sent[c] >= 1
  /\ sent[c] < MaxSend
  /\ uplink' = [uplink EXCEPT ![c] = Append(@, Message(c, "ice-candidate"))]
  /\ sent' = [sent EXCEPT ![c] = @ + 1]
  /\ UNCHANGED <<bootVars, cpc, participants, joinClock, mailbox, downlink, received, dropped, heldEver, offerTimer>>
  /\ UNCHANGED notSess

\* The session's relay takes the next message of c, in arrival order: a peer
\* that has joined is handed it.
RelayDeliver(c) ==
  /\ uplink[c] # <<>>
  /\ LET m == Head(uplink[c]) IN
       /\ m.kind # "leave"
       /\ RelayTargets(m.sessionId, c) # {}
       /\ downlink' = [t \in Clients |->
            IF t \in RelayTargets(m.sessionId, c) THEN Append(downlink[t], m) ELSE downlink[t]]
  /\ uplink' = [uplink EXCEPT ![c] = Tail(@)]
  /\ UNCHANGED <<bootVars, cpc, participants, joinClock, mailbox, received, dropped, heldEver, offerTimer, sent>>
  /\ UNCHANGED notSess

\* No peer has joined: the message is held in the session's bounded mailbox.
\* On overflow either the new message or the oldest held one is discarded.
RelayHold(c) ==
  /\ uplink[c] # <<>>
  /\ LET m == Head(uplink[c])
         s == m.sessionId IN
       /\ m.kind # "leave"
       /\ RelayTargets(s, c) = {}
       /\ IF Len(mailbox[s]) < MailboxCap
            THEN /\ mailbox' = [mailbox EXCEPT ![s] = Append(@, m)]
                 /\ heldEver' = heldEver \cup {m}
                 /\ UNCHANGED dropped
            ELSE \/ /\ dropped' = dropped \cup {m}
                    /\ UNCHANGED <<mailbox, heldEver>>
                 \/ /\ dropped' = dropped \cup {Head(mailbox[s])}
                    /\ mailbox' = [mailbox EXCEPT ![s] = Append(Tail(@), m)]
                    /\ heldEver' = heldEver \cup {m}
  /\ uplink' = [uplink EXCEPT ![c] = Tail(@)]
  /\ UNCHANGED <<bootVars, cpc, participants, joinClock, downlink, received, offerTimer, sent>>
  /\ UNCHANGED notSess

\* leave(sessionId, participantId), processed after everything c sent before.
RelayLeave(c) ==
  /\ uplink[c] # <<>>
  /\ Head(uplink[c]).kind = "leave"
  /\ participants' = {p \in participants :
                        ~(p.sessionId = Head(uplink[c]).sessionId /\ p.userId = c)}
  /\ uplink' = [uplink EXCEPT ![c] = Tail(@)]
  /\ UNCHANGED <<bootVars, cpc, joinClock, mailbox, downlink, received, dropped, heldEver,
                 offerTimer, sent>>
  /\ UNCHANGED notSess

\* The manager of c takes the next relayed message; a responder answers an
\* offer.
Receive(c) ==
  /\ cpc[c] = "attached"
  /\ downlink[c] # <<>>
  /\ LET m == Head(downlink[c]) IN
       /\ received' = [received EXCEPT ![c] = Append(@, m)]
       /\ IF m.kind = "offer" /\ RoleOf(c) = "responder" /\ sent[c] < MaxSend
            THEN /\ uplink' = [uplink EXCEPT ![c] = Append(@, Message(c, "answer"))]
                 /\ sent' = [sent EXCEPT ![c] = @ + 1]
            ELSE UNCHANGED <<uplink, sent>>
  /\ downlink' = [downlink EXCEPT ![c] = Tail(@)]
  /\ UNCHANGED <<bootVars, cpc, participants, joinClock, mailbox, dropped, heldEver, offerTimer>>
  /\ UNCHANGED notSess

\* manager.disconnect() (hangup or unmount): the transport is detached and
\* the relay learns of it after the messages already sent.
Disconnect(c) ==
  /\ cpc[c] = "attached"
  /\ cpc' = [cpc EXCEPT ![c] = "closed"]
  /\ uplink' = [uplink EXCEPT ![c] =
       Append(@, [sessionId |-> sessionData[c].sessionId, senderId |-> c,
                  kind |-> "leave", sentAt |-> 0])]
  /\ UNCHANGED <<bootVars, participants, joinClock, mailbox, downlink, received, dropped, heldEver, offerTimer, sent>>
  /\ UNCHANGED notSess

(***************************************************************************)
(* ---------------- One client's call lifecycle --------------------------- *)
(* MedicalVideoCall (host) renders CloudflareRealtimeVideo, which runs      *)
(* initializeSession, constructs a connection manager per attempt and       *)
(* reacts to its callbacks; the end-call button, the mute buttons and the   *)
(* retry button of the error banner are the user's inputs.  The manager     *)
(* itself follows the specification's lifecycle; its media handling is      *)
(* that of the repository's MediaManager.                                   *)
(***************************************************************************)

MaxManagers == 2
MaxHangups == 2
MaxCallbacks == 3
MaxRetryClicks == 4
MaxStackFrames == 3

ManagerIds == 1..MaxManagers
\* The null of webrtcManagerRef.current and of localStream.
NoManager == 0
NoStream == 0
UserTypes == {"patient", "worker"}
Kinds == {"audio", "video"}

\* '接続に失敗しました。'
FailedMessage == [words |-> {"connection"}]
\* '接続が失われました。ネットワークを確認してください。'
LostMessage == [words |-> {"connection", "network"}]
\* the media-access denial, shown with the camera/microphone hint
PermissionMessage == [words |-> {"camera", "microphone"}]
\* the signaling transport could not be attached
AttachMessage == [words |-> {"network"}]
\* errorData.error || 'Failed to create session'
CreateFailedMessage == [words |-> {"Failed to create session"}]

CreateErrors == {SessionExistsError, CreateFailedMessage}

NoTrack == [enabled |-> FALSE, live |-> FALSE]
LiveTrack == [enabled |-> TRUE, live |-> TRUE]

\* A manager id not yet handed out by `new WebRTCManager`.
UnusedManager ==
  [state |-> "unused", error |-> NULL, conn |-> "new", ice |-> "new",
   held |-> FALSE, audio |-> NoTrack, video |-> NoTrack]

FreeManagers == {i \in ManagerIds : mgr[i].state = "unused"}
NewManagerId == CHOOSE i \in FreeManagers : \A j \in FreeManagers : i <= j

\* MediaManager.initialize: getUserMedia({audio: true, video: true}) granted;
\* the two tracks are kept and the manager is initialized.
MediaAcquired(m) == [m EXCEPT !.held = TRUE, !.audio = LiveTrack, !.video = LiveTrack]

\* Mutant: stopAllStreams without the null checks on the tracks; stopping a
\* track no longer held raises an error.
StopAllStreamsNoNullCheck(m) ==
  IF m.held
    THEN [m EXCEPT !.held = FALSE, !.audio.live = FALSE, !.video.live = FALSE]
    ELSE [m EXCEPT !.error = [words |-> {"TypeError"}]]

\* MediaManager.stopAllStreams: every track still held is stopped, then the
\* references are dropped.
StopAllStreams(m) ==
  IF m.held
    THEN [m EXCEPT !.held = FALSE, !.audio.live = FALSE, !.video.live = FALSE]
    ELSE m

\* manager.disconnect(): track cleanup and transport detach; a manager already
\* failed has done both.
ManagerDisconnect(m) ==
  IF m.state = "failed"
    THEN m
    ELSE [StopAllStreams(m) EXCEPT !.state = "closed"]

\* The manager enters failed: track cleanup and transport detach.
ManagerFailed(m, msg) == [StopAllStreams(m) EXCEPT !.state = "failed", !.error = msg]

\* A disconnect of an attached manager tells the relay it leaves.
LeaveSignals(m) == IF m.state = "attached" THEN 1 ELSE 0

\* Mutant: muting by stopping the track instead of disabling it.
ToggleTrackStops(m, kind, enabled) ==
  [m EXCEPT ![kind].enabled = enabled, ![kind].live = enabled]

\* track.enabled = enabled for the tracks of one kind.
ToggleTrack(m, kind, enabled) == [m EXCEPT ![kind].enabled = enabled]

\* Mutant: the offer is scheduled for either role.
OfferScheduledAnyRole(ut, resolved) == resolved

\* Mutant: the offer is scheduled whether or not initialize resolved.
OfferScheduledAlways(ut, resolved) == ut = "patient"

\* if (userType === 'patient') setTimeout(() => manager.createOffer(), 1000),
\* reached only when `await manager.initialize(...)` has resolved.
OfferScheduled(ut, resolved) == resolved /\ ut = "patient"

\* RTCPeerConnection.connectionState transitions the manager reports.
ConnNext(from, to) ==
  \/ from = "new" /\ to \in {"connected", "failed"}
  \/ from = "connected" /\ to = "disconnected"
  \/ from = "disconnected" /\ to \in {"connected", "failed"}

\* RTCPeerConnection.iceConnectionState transitions the manager reports.
IceNext(from, to) ==
  \/ from = "new" /\ to = "connected"
  \/ from = "connected" /\ to = "disconnected"
  \/ from = "disconnected" /\ to = "connected"

CallInit ==
  /\ userType = "unset"
  /\ page = "mounted"
  /\ navigating = FALSE
  /\ initPc = "idle"
  /\ callSession = NULL
  /\ webrtcManagerRef = NoManager
  /\ mgr = [i \in ManagerIds |-> UnusedManager]
  /\ localStream = NoStream
  /\ connectionState = "new"
  /\ iceConnectionState = "new"
  /\ callError = NULL
  /\ showRetryButton = FALSE
  /\ mediaControls = [audio |-> FALSE, video |-> FALSE]
  /\ hostMediaControls = [audio |-> FALSE, video |-> FALSE]
  /\ offerTimers = {}
  /\ offersCreated = {}
  /\ joined = {}
  /\ signalsSent = 0
  /\ hangups = 0
  /\ sessionEndCalls = 0
  /\ hangupTimers = 0
  /\ endRequests = <<>>
  /\ retryClicks = 0
  /\ toggleCalls = 0

hangupVars == <<hangups, sessionEndCalls, hangupTimers, endRequests, navigating>>
linkVars == <<connectionState, iceConnectionState>>
offerVars == <<offerTimers, offersCreated, joined, signalsSent>>
controlVars == <<mediaControls, hostMediaControls>>

\* The component is mounted for a patient or a worker; the mount effect runs
\* initializeSession() up to its first await.
MountInitialize(ut) ==
  /\ page = "mounted"
  /\ initPc = "idle"
  /\ userType' = ut
  /\ initPc' = "creating"
  /\ callError' = NULL
  /\ UNCHANGED <<page, retryClicks, toggleCalls, callSession, webrtcManagerRef, mgr, localStream,
                 showRetryButton, linkVars, offerVars, controlVars, hangupVars>>
  /\ UNCHANGED notCall

\* The 再接続を試す button of the error banner: setError(null),
\* setShowRetryButton(false), initializeSession() up to its first await.
RetryClick ==
  /\ page = "mounted"
  /\ callError # NULL
  /\ showRetryButton
  /\ initPc = "done"
  /\ retryClicks < MaxRetryClicks
  /\ retryClicks' = retryClicks + 1
  /\ initPc' = "creating"
  /\ callError' = NULL
  /\ showRetryButton' = FALSE
  /\ UNCHANGED <<userType, toggleCalls, page, callSession, webrtcManagerRef, mgr, localStream,
                 linkVars, offerVars, controlVars, hangupVars>>
  /\ UNCHANGED notCall

\* The create request is answered.  ok: setSessionData, new WebRTCManager,
\* webrtcManagerRef.current = manager, then manager.initialize is awaited.
\* Not ok: the catch block, which turns to the join request for an
\* existing-session error and otherwise sets the error.
CreateResponds(resp) ==
  /\ page = "mounted"
  /\ initPc = "creating"
  /\ IF resp = NULL
       THEN /\ FreeManagers # {}
            /\ callSession' = [sessionId |-> "S1"]
            /\ mgr' = [mgr EXCEPT ![NewManagerId].state = "constructed"]
            /\ webrtcManagerRef' = NewManagerId
            /\ initPc' = "initializing"
            /\ UNCHANGED callError
       ELSE IF IsExistingSessionError(resp)
         THEN /\ initPc' = "joining"
              /\ UNCHANGED <<callSession, mgr, webrtcManagerRef, callError>>
         ELSE /\ callError' = resp
              /\ callSession' = NULL
              /\ initPc' = "done"
              /\ UNCHANGED <<mgr, webrtcManagerRef>>
  /\ UNCHANGED <<userType, retryClicks, toggleCalls, page, localStream, showRetryButton, linkVars, offerVars,
                 controlVars, hangupVars>>
  /\ UNCHANGED notCall

\* The join request of the catch block is answered.
JoinResponds(ok) ==
  /\ page = "mounted"
  /\ initPc = "joining"
  /\ initPc' = "done"
  /\ IF ok
       THEN /\ callSession' = [sessionId |-> "S1"]
            /\ callError' = NULL
       ELSE /\ callError' = SessionExistsError
            /\ callSession' = NULL
  /\ UNCHANGED <<userType, retryClicks, toggleCalls, page, webrtcManagerRef, mgr, localStream, showRetryButton,
                 linkVars, offerVars, controlVars, hangupVars>>
  /\ UNCHANGED notCall

\* `await manager.initialize(token, isInitiator)` settles.
\*   denied:  media access is refused; the manager fails before it attaches
\*            and initialize rejects into the catch block;
\*   refused: media is acquired (onLocalStream), the transport attach fails,
\*            the manager fails and initialize rejects;
\*   ready:   media is acquired and the transport attached; initialize
\*            resolves and a patient schedules createOffer.
InitializeSettles(outcome) ==
  /\ page = "mounted"
  /\ initPc = "initializing"
  /\ mgr[webrtcManagerRef].state = "constructed"
  /\ initPc' = "done"
  /\ LET id == webrtcManagerRef IN
       CASE outcome = "denied" ->
              /\ mgr' = [mgr EXCEPT ![id] = ManagerFailed(@, PermissionMessage)]
              /\ callError' = PermissionMessage
              /\ callSession' = NULL
              /\ UNCHANGED <<localStream, joined>>
         [] outcome = "refused" ->
              /\ mgr' = [mgr EXCEPT ![id] = ManagerFailed(MediaAcquired(@), AttachMessage)]
              /\ localStream' = id
              /\ callError' = AttachMessage
              /\ callSession' = NULL
              /\ UNCHANGED joined
         [] OTHER ->
              /\ mgr' = [mgr EXCEPT ![id] = [MediaAcquired(@) EXCEPT !.state = "attached"]]
              /\ localStream' = id
              /\ joined' = joined \cup {id}
              /\ UNCHANGED <<callError, callSession>>
  /\ offerTimers' = IF OfferScheduled(userType, outcome = "ready")
                      THEN offerTimers \cup {webrtcManagerRef}
                      ELSE offerTimers
  /\ UNCHANGED <<userType, retryClicks, toggleCalls, page, webrtcManagerRef, showRetryButton, linkVars,
                 offersCreated, signalsSent, controlVars, hangupVars>>
  /\ UNCHANGED notCall

\* The createOffer timeout fires: an attached manager creates and sends its
\* offer; it is never cleared, so it also fires on a manager no longer attached.
OfferTimeout(id) ==
  /\ page # "unloaded"
  /\ id \in offerTimers
  /\ offerTimers' = offerTimers \ {id}
  /\ IF mgr[id].state = "attached"
       THEN /\ offersCreated' = offersCreated \cup {id}
            /\ signalsSent' = signalsSent + 1
       ELSE UNCHANGED <<offersCreated, signalsSent>>
  /\ UNCHANGED <<userType, retryClicks, toggleCalls, page, initPc, callSession, webrtcManagerRef, mgr, localStream,
                 callError, showRetryButton, linkVars, joined, controlVars, hangupVars>>
  /\ UNCHANGED notCall

\* onConnectionStateChange(state) of an attached manager.
ConnectionStateChange(id, s) ==
  /\ page = "mounted"
  /\ mgr[id].state = "attached"
  /\ ConnNext(mgr[id].conn, s)
  /\ connectionState' = s
  /\ IF s = "failed"
       THEN /\ callError' = FailedMessage
            /\ showRetryButton' = TRUE
            /\ mgr' = [mgr EXCEPT ![id] = [ManagerFailed(@, FailedMessage) EXCEPT !.conn = s]]
       ELSE /\ mgr' = [mgr EXCEPT ![id].conn = s]
            /\ IF s = "disconnected"
                 THEN /\ callError' = LostMessage
                      /\ showRetryButton' = TRUE
                 ELSE UNCHANGED <<callError, showRetryButton>>
  /\ UNCHANGED <<userType, retryClicks, toggleCalls, page, initPc, callSession, webrtcManagerRef, localStream,
                 iceConnectionState, offerVars, controlVars, hangupVars>>
  /\ UNCHANGED notCall

\* onIceConnectionStateChange(state) of an attached manager.
IceConnectionStateChange(id, s) ==
  /\ page = "mounted"
  /\ mgr[id].state = "attached"
  /\ IceNext(mgr[id].ice, s)
  /\ iceConnectionState' = s
  /\ mgr' = [mgr EXCEPT ![id].ice = s]
  /\ UNCHANGED <<userType, retryClicks, toggleCalls, page, initPc, callSession, webrtcManagerRef, localStream,
                 connectionState, callError, showRetryButton, offerVars, controlVars,
                 hangupVars>>
  /\ UNCHANGED notCall

\* The calls of videoRef.toggleAudio (toggleVideo) one handling makes with
\* `frames` stack frames left: the host's handler calls it; with a local
\* stream it calls onToggleAudio, which is the host's handler again.
RECURSIVE ToggleCallsFrom(_, _)
ToggleCallsFrom(hasStream, frames) ==
  IF frames = 0
    THEN 0
    ELSE 1 + (IF hasStream THEN ToggleCallsFrom(hasStream, frames - 1) ELSE 0)

\* A press of the microphone button: handleToggleAudio of the host flips its
\* flag and calls videoRef.toggleAudio, which (with a local stream) sets
\* track.enabled and its own flag and calls the host's handler back; the
\* nested calls repeat the same assignments.
handleToggleAudio ==
  /\ page = "mounted"
  /\ LET enabled == ~hostMediaControls.audio IN
       /\ hostMediaControls' = [hostMediaControls EXCEPT !.audio = enabled]
       /\ IF localStream # NoStream
            THEN /\ mgr' = [mgr EXCEPT ![localStream] = ToggleTrack(@, "audio", enabled)]
                 /\ mediaControls' = [mediaControls EXCEPT !.audio = enabled]
            ELSE UNCHANGED <<mgr, mediaControls>>
  /\ toggleCalls' = ToggleCallsFrom(localStream # NoStream, MaxStackFrames)
  /\ UNCHANGED <<userType, retryClicks, page, initPc, callSession, webrtcManagerRef, localStream,
                 callError, showRetryButton, linkVars, offerVars, hangupVars>>
  /\ UNCHANGED notCall

\* A press of the camera button, the same with toggleVideo.
handleToggleVideo ==
  /\ page = "mounted"
  /\ LET enabled == ~hostMediaControls.video IN
       /\ hostMediaControls' = [hostMediaControls EXCEPT !.video = enabled]
       /\ IF localStream # NoStream
            THEN /\ mgr' = [mgr EXCEPT ![localStream] = ToggleTrack(@, "video", enabled)]
                 /\ mediaControls' = [mediaControls EXCEPT !.video = enabled]
            ELSE UNCHANGED <<mgr, mediaControls>>
  /\ toggleCalls' = ToggleCallsFrom(localStream # NoStream, MaxStackFrames)
  /\ UNCHANGED <<userType, retryClicks, page, initPc, callSession, webrtcManagerRef, localStream,
                 callError, showRetryButton, linkVars, offerVars, hangupVars>>
  /\ UNCHANGED notCall

\* The effect on [externalMediaControls, mediaControls.audio, ...]: with a
\* local stream and the host's flag differing from the component's, it calls
\* toggleAudio(external), which sets the track and the component's flag and
\* calls the host's handler; that negates the host's flag and calls toggleAudio
\* with the negation, and so on, each nested call repeating the assignment of
\* the negation.  The stack runs out in the audio branch before the video
\* branch is reached; video is compared when audio agrees.
MediaControlsEffect ==
  /\ page = "mounted"
  /\ localStream # NoStream
  /\ hostMediaControls # mediaControls
  /\ LET kind == IF hostMediaControls.audio # mediaControls.audio THEN "audio" ELSE "video"
         enabled == ~hostMediaControls[kind]
     IN  /\ mgr' = [mgr EXCEPT ![localStream] = ToggleTrack(@, kind, enabled)]
         /\ mediaControls' = [mediaControls EXCEPT ![kind] = enabled]
         /\ hostMediaControls' = [hostMediaControls EXCEPT ![kind] = enabled]
  /\ toggleCalls' = ToggleCallsFrom(TRUE, MaxStackFrames)
  /\ UNCHANGED <<userType, retryClicks, page, initPc, callSession, webrtcManagerRef,
                 localStream, callError, showRetryButton, linkVars, offerVars, hangupVars>>
  /\ UNCHANGED notCall

\* Mutant: endCall leaves the disconnect until the end request is answered.
EndCallAwaitsFirst(ref, managers) == managers

\* endCall up to its await: disconnect the manager of the ref.
EndCallDisconnect(ref, managers) ==
  IF ref # NoManager THEN [managers EXCEPT ![ref] = ManagerDisconnect(@)] ELSE managers

\* handleSessionEnd of the host: the route's onSessionEnd at once (it sets
\* window.location.href), and endCall 100 ms later.
SessionEndCallback ==
  /\ sessionEndCalls < MaxCallbacks
  /\ sessionEndCalls' = sessionEndCalls + 1
  /\ navigating' = TRUE

\* The end-call button.
HangupPress ==
  /\ page = "mounted"
  /\ hangups < MaxHangups
  /\ hangups' = hangups + 1
  /\ SessionEndCallback
  /\ hangupTimers' = hangupTimers + 1
  /\ UNCHANGED <<userType, retryClicks, toggleCalls, page, initPc, callSession, webrtcManagerRef, mgr, localStream,
                 callError, showRetryButton, linkVars, offerVars, controlVars,
                 endRequests>>
  /\ UNCHANGED notCall

\* The 100 ms timeout: videoRef.endCall().  With session data the end request
\* is sent and awaited; without, endCall goes straight to onSessionEnd, which
\* is the host's handleSessionEnd.
HangupTimeout ==
  /\ page # "unloaded"
  /\ hangupTimers > 0
  /\ mgr' = EndCallDisconnect(webrtcManagerRef, mgr)
  /\ signalsSent' = signalsSent +
       (IF webrtcManagerRef # NoManager /\ mgr'[webrtcManagerRef] # mgr[webrtcManagerRef]
          THEN LeaveSignals(mgr[webrtcManagerRef]) ELSE 0)
  /\ IF callSession # NULL
       THEN /\ endRequests' = Append(endRequests, [manager |-> webrtcManagerRef])
            /\ hangupTimers' = hangupTimers - 1
            /\ UNCHANGED <<sessionEndCalls, navigating>>
       ELSE /\ SessionEndCallback
            /\ UNCHANGED <<hangupTimers, endRequests>>
  /\ UNCHANGED <<userType, retryClicks, toggleCalls, page, initPc, callSession, webrtcManagerRef, localStream,
                 callError, showRetryButton, linkVars, offerTimers, offersCreated, joined,
                 controlVars, hangups>>
  /\ UNCHANGED notCall

\* The end request is answered or fails: endCall resumes with onSessionEnd,
\* the host's handleSessionEnd.
EndResponds ==
  /\ page # "unloaded"
  /\ endRequests # <<>>
  /\ endRequests' = Tail(endRequests)
  /\ SessionEndCallback
  /\ hangupTimers' = hangupTimers + 1
  /\ UNCHANGED <<userType, retryClicks, toggleCalls, page, initPc, callSession, webrtcManagerRef, mgr, localStream,
                 callError, showRetryButton, linkVars, offerVars, controlVars, hangups>>
  /\ UNCHANGED notCall

\* CloudflareRealtimeVideo unmounts: the cleanup disconnects the manager of
\* the ref.
Unmount ==
  /\ page = "mounted"
  /\ page' = "unmounted"
  /\ mgr' = EndCallDisconnect(webrtcManagerRef, mgr)
  /\ signalsSent' = signalsSent +
       (IF webrtcManagerRef # NoManager /\ mgr'[webrtcManagerRef] # mgr[webrtcManagerRef]
          THEN LeaveSignals(mgr[webrtcManagerRef]) ELSE 0)
  /\ UNCHANGED <<userType, retryClicks, toggleCalls, initPc, callSession, webrtcManagerRef, localStream, callError,
                 showRetryButton, linkVars, offerTimers, offersCreated, joined,
                 controlVars, hangupVars>>
  /\ UNCHANGED notCall

\* The navigation the route asked for replaces the document: its timers and
\* pending requests go with it.
PageUnload ==
  /\ navigating
  /\ page # "unloaded"
  /\ page' = "unloaded"
  /\ offerTimers' = {}
  /\ hangupTimers' = 0
  /\ endRequests' = <<>>
  /\ UNCHANGED <<userType, retryClicks, toggleCalls, initPc, callSession, webrtcManagerRef, mgr, localStream,
                 callError, showRetryButton, linkVars, offersCreated, joined, signalsSent,
                 controlVars, hangups, sessionEndCalls, navigating>>
  /\ UNCHANGED notCall

(***************************************************************************)
(* ---------------- MediaManager ----------------                          *)
(* The manager keeps a reference to one audio, one video and one screen     *)
(* track (its streams wrap the same tracks and are set and cleared with     *)
(* them).  The browser hands out a new track for every granted getUserMedia *)
(* or getDisplayMedia; a track stays live until it is stopped or the user   *)
(* agent ends it.                                                           *)
(***************************************************************************)

MaxTracks == 4

TrackIds == 1..MaxTracks
\* The null of a track reference.
NoTrackRef == 0

UnacquiredTracks == {t \in TrackIds : trackKind[t] = "none"}
\* The next `n` tracks the browser hands out.
NewTracks(n) == {t \in UnacquiredTracks : Cardinality({u \in UnacquiredTracks : u < t}) < n}
NewTrack(i) == CHOOSE t \in NewTracks(i) : \A u \in NewTracks(i) : u <= t

\* The tracks the manager holds a reference to.
Referenced == {tracks.audioTrack, tracks.videoTrack, tracks.screenTrack} \ {NoTrackRef}

\* isReady()
isReady == isInitialized

MediaInit ==
  /\ tracks = [audioTrack |-> NoTrackRef, videoTrack |-> NoTrackRef, screenTrack |-> NoTrackRef]
  /\ isInitialized = FALSE
  /\ trackKind = [t \in TrackIds |-> "none"]
  /\ liveTracks = {}
  /\ lastOperation = "none"

\* initialize(): getUserMedia({audio: true, video: true}); granted, the two
\* tracks are stored over whatever was referenced; refused, the error is
\* rethrown and nothing is stored.
initialize(granted) ==
  /\ lastOperation' = "initialize"
  /\ IF granted
       THEN /\ Cardinality(UnacquiredTracks) >= 2
            /\ LET a == NewTrack(1)
                   v == NewTrack(2)
               IN  /\ trackKind' = [trackKind EXCEPT ![a] = "audio", ![v] = "video"]
                   /\ liveTracks' = liveTracks \cup {a, v}
                   /\ tracks' = [tracks EXCEPT !.audioTrack = a, !.videoTrack = v]
            /\ isInitialized' = TRUE
       ELSE UNCHANGED <<tracks, isInitialized, trackKind, liveTracks>>
  /\ UNCHANGED notMedia

\* startScreenShare(): getDisplayMedia; granted, the track is stored over
\* whatever screenTrack referenced and its onended is set; refused, null is
\* returned.
startScreenShare(granted) ==
  /\ lastOperation' = "startScreenShare"
  /\ IF granted
       THEN /\ UnacquiredTracks # {}
            /\ LET t == NewTrack(1)
               IN  /\ trackKind' = [trackKind EXCEPT ![t] = "screen"]
                   /\ liveTracks' = liveTracks \cup {t}
                   /\ tracks' = [tracks EXCEPT !.screenTrack = t]
       ELSE UNCHANGED <<tracks, trackKind, liveTracks>>
  /\ UNCHANGED isInitialized
  /\ UNCHANGED notMedia

\* stopScreenShare(): stops and forgets the screen track referenced, if any.
stopScreenShare ==
  /\ lastOperation' = "stopScreenShare"
  /\ IF tracks.screenTrack # NoTrackRef
       THEN /\ liveTracks' = liveTracks \ {tracks.screenTrack}
            /\ tracks' = [tracks EXCEPT !.screenTrack = NoTrackRef]
       ELSE UNCHANGED <<tracks, liveTracks>>
  /\ UNCHANGED <<isInitialized, trackKind>>
  /\ UNCHANGED notMedia

\* The user agent ends a live screen track (the user stops sharing); its
\* onended handler calls this.stopScreenShare().
ScreenTrackEnded(t) ==
  /\ t \in liveTracks
  /\ trackKind[t] = "screen"
  /\ lastOperation' = "ended"
  /\ IF tracks.screenTrack # NoTrackRef
       THEN /\ liveTracks' = liveTracks \ {t, tracks.screenTrack}
            /\ tracks' = [tracks EXCEPT !.screenTrack = NoTrackRef]
       ELSE /\ liveTracks' = liveTracks \ {t}
            /\ UNCHANGED tracks
  /\ UNCHANGED <<isInitialized, trackKind>>
  /\ UNCHANGED notMedia

\* stopAllStreams(): stops every track referenced, forgets all of them and
\* clears isInitialized.
stopAllStreams ==
  /\ lastOperation' = "stopAllStreams"
  /\ liveTracks' = liveTracks \ Referenced
  /\ tracks' = [audioTrack |-> NoTrackRef, videoTrack |-> NoTrackRef,
                screenTrack |-> NoTrackRef]
  /\ isInitialized' = FALSE
  /\ UNCHANGED trackKind
  /\ UNCHANGED notMedia

(***************************************************************************)
(* ---------------- Specifications ----------------                        *)
(***************************************************************************)
Init == QualityInit /\ ErrorInit /\ IceInit /\ SessionInit /\ CallInit /\ MediaInit

\* The session with clients whose transport may attach again.
NextRejoin ==
  \/ \E c \in Clients : initializeSession(c)
  \/ \E c \in Clients : CreateLookup(c)
  \/ \E c \in Clients : CreateInsert(c)
  \/ \E c \in Clients : OnCreateResponse(c)
  \/ \E c \in Clients : ManagerInitialize(c)
  \/ \E c \in Clients : Rejoin(c)
  \/ \E c \in Clients : CreateOfferTimer(c)
  \/ \E c \in Clients : RelayDeliver(c)
  \/ \E c \in Clients : RelayHold(c)
  \/ \E c \in Clients : RelayLeave(c)
  \/ \E c \in Clients : Receive(c)
  \/ \E c \in Clients : Disconnect(c)

\* Any sequence of operations on the MediaManager and of ended events.
NextMedia ==
  \/ \E granted \in BOOLEAN : initialize(granted)
  \/ \E granted \in BOOLEAN : startScreenShare(granted)
  \/ stopScreenShare
  \/ \E t \in TrackIds : ScreenTrackEnded(t)
  \/ stopAllStreams

NextQuality ==
  \/ \E s \in Samples : SetMetrics("m1", s)
  \/ QualityEffect("m1")

NextQualityPair ==
  \/ \E k \in Monitors, s \in PairSamples : SetMetrics(k, s)
  \/ \E k \in Monitors : QualityEffect(k)

NextError ==
  \/ \E msg \in Messages : ReportFailure(msg)
  \/ NetworkErrorEffect
  \/ handleErrorRetry
  \/ handleErrorDismiss
  \/ ReconnectTimerFire
  \/ Tick

\* The error banner fed with each cause of failure.
NextClassify ==
  \/ \E f \in RawFailures : ReportFailure(f.message)
  \/ NetworkErrorEffect
  \/ handleErrorDismiss
  \/ ReconnectTimerFire
  \/ Tick

NextIce ==
  \/ \E c \in Candidates : HandleCandidate(c)
  \/ HandleRemoteDescription
  \/ RemoteDescriptionSet

NextSession ==
  \/ \E c \in Clients : initializeSession(c)
  \/ \E c \in Clients : CreateLookup(c)
  \/ \E c \in Clients : CreateInsert(c)
  \/ \E c \in Clients : OnCreateResponse(c)
  \/ \E c \in Clients : JoinServe(c)
  \/ \E c \in Clients : OnJoinResponse(c)
  \/ \E c \in Clients : ManagerInitialize(c)
  \/ \E c \in Clients : CreateOfferTimer(c)
  \/ \E c \in Clients : SendCandidate(c)
  \/ \E c \in Clients : RelayDeliver(c)
  \/ \E c \in Clients : RelayHold(c)
  \/ \E c \in Clients : RelayLeave(c)
  \/ \E c \in Clients : Receive(c)
  \/ \E c \in Clients : Disconnect(c)

\* The call's lifecycle: bootstrap, manager, connection state, retry, hangup.
NextCall ==
  \/ \E ut \in UserTypes : MountInitialize(ut)
  \/ RetryClick
  \/ \E resp \in {NULL} \cup CreateErrors : CreateResponds(resp)
  \/ \E ok \in BOOLEAN : JoinResponds(ok)
  \/ \E outcome \in {"denied", "refused", "ready"} : InitializeSettles(outcome)
  \/ \E id \in ManagerIds : OfferTimeout(id)
  \/ \E id \in ManagerIds, s \in {"connected", "disconnected", "failed"} :
       ConnectionStateChange(id, s)
  \/ HangupPress
  \/ HangupTimeout
  \/ EndResponds
  \/ Unmount
  \/ PageUnload

\* One connection attempt and its hangup.
NextHangup ==
  \/ \E ut \in UserTypes : MountInitialize(ut)
  \/ \E resp \in {NULL} \cup CreateErrors : CreateResponds(resp)
  \/ \E ok \in BOOLEAN : JoinResponds(ok)
  \/ \E outcome \in {"denied", "refused", "ready"} : InitializeSettles(outcome)
  \/ \E id \in ManagerIds : OfferTimeout(id)
  \/ \E id \in ManagerIds, s \in {"connected", "disconnected", "failed"} :
       ConnectionStateChange(id, s)
  \/ HangupPress
  \/ HangupTimeout
  \/ EndResponds
  \/ Unmount
  \/ PageUnload

\* The mute controls during one connection attempt.
NextControls ==
  \/ \E ut \in UserTypes : MountInitialize(ut)
  \/ \E resp \in {NULL} \cup CreateErrors : CreateResponds(resp)
  \/ \E ok \in BOOLEAN : JoinResponds(ok)
  \/ \E outcome \in {"denied", "refused", "ready"} : InitializeSettles(outcome)
  \/ \E id \in ManagerIds : OfferTimeout(id)
  \/ \E id \in ManagerIds, s \in {"connected", "disconnected", "failed"} :
       ConnectionStateChange(id, s)
  \/ \E id \in ManagerIds, s \in {"connected", "disconnected"} :
       IceConnectionStateChange(id, s)
  \/ handleToggleAudio
  \/ handleToggleVideo
  \/ MediaControlsEffect

\* One monitor, every sample.
SpecQuality == Init /\ [][NextQuality]_vars
\* Two monitors with independent histories.
SpecQualityPair == Init /\ [][NextQualityPair]_vars
SpecError == Init /\ [][NextError]_vars
SpecClassify == Init /\ [][NextClassify]_vars

SpecRejoin == Init /\ [][NextRejoin]_vars
SpecCall == Init /\ [][NextCall]_vars
SpecHangup == Init /\ [][NextHangup]_vars
SpecControls == Init /\ [][NextControls]_vars
SpecMedia == Init /\ [][NextMedia]_vars
SpecIce == Init /\ [][NextIce]_vars
SpecSession == Init /\ [][NextSession]_vars

(***************************************************************************)
(* ---------------- Properties ----------------                            *)
(***************************************************************************)
Initiators(s) == {p \in ParticipantsOf(s) : p.role = "initiator"}
Responders(s) == {p \in ParticipantsOf(s) : p.role = "responder"}

\* Everything handed to c so far, in the order the relay handed it over.
Delivered(c) == received[c] \o downlink[c]

Offers(q) == {i \in 1..Len(q) : q[i].kind = "offer"}

\* C1 (as stated): every session somebody has joined has exactly one
\* initiator and at most one responder.
C1_ExactlyOneInitiator ==
  \A s \in AllSessionIds :
    ParticipantsOf(s) # {} =>
      /\ Cardinality(Initiators(s)) = 1
      /\ Cardinality(Responders(s)) <= 1

\* C1 (amended): a session has at most one initiator and at most one
\* responder, exactly one initiator while the patient is joined, and every
\* participant's role is fixed by its userType alone (patient = initiator,
\* worker = responder).
C1_RoleByUserType ==
  /\ \A s \in AllSessionIds :
       /\ Cardinality(Initiators(s)) <= 1
       /\ Cardinality(Responders(s)) <= 1
       /\ (\E p \in ParticipantsOf(s) : p.userType = "patient")
            => Cardinality(Initiators(s)) = 1
  /\ \A p \in participants :
       p.role = (IF p.userType = "patient" THEN "initiator" ELSE "responder")

\* Both parties of appointment 1 have joined one session.
C1_Witness ==
  \E s \in AllSessionIds :
    {p.userId : p \in ParticipantsOf(s)} = {"patient-1", "worker-1"}

\* C2: a message is handed only to a client of the message's own session,
\* never to its sender, only from the other party of the same appointment,
\* and the messages of one sender are handed over in sending order.
C2_CounterpartOnlyInOrder ==
  \A c \in Clients :
    \A i \in 1..Len(Delivered(c)) :
      LET m == Delivered(c)[i] IN
        /\ m.senderId # c
        /\ sessionData[c] # NULL
        /\ m.sessionId = sessionData[c].sessionId
        /\ AppointmentOf(m.senderId) = AppointmentOf(c)
        /\ \A j \in (i + 1)..Len(Delivered(c)) :
             Delivered(c)[j].senderId = m.senderId => m.sentAt <= Delivered(c)[j].sentAt

\* The worker has received two messages of the patient while a client of
\* another session is attached.
C2_Witness ==
  /\ Len(received["worker-1"]) >= 2
  /\ cpc["patient-2"] = "attached"
  /\ sent["patient-2"] >= 1

\* C3: no message is handed to a client twice; an offer only ever comes
\* from the initiator; and once the initiator's offer has left the relay
\* without being discarded, the attached responder has received exactly one
\* offer.
C3_OfferExactlyOnce ==
  /\ \A c \in Clients :
       /\ \A i, j \in 1..Len(Delivered(c)) : Delivered(c)[i] = Delivered(c)[j] => i = j
       /\ \A i \in Offers(Delivered(c)) :
            /\ UserTypeOf(Delivered(c)[i].senderId) = "patient"
            /\ Delivered(c)[i].senderId # c
       /\ Cardinality(Offers(Delivered(c))) <= 1
  /\ \A p, w \in Clients :
       ( /\ AppointmentOf(p) = AppointmentOf(w)
         /\ RoleOf(p) = "initiator" /\ RoleOf(w) = "responder"
         /\ cpc[w] = "attached"
         /\ sessionData[p] # NULL
         /\ sent[p] >= 1
         /\ Offers(uplink[p]) = {}
         /\ Offers(mailbox[sessionData[p].sessionId]) = {}
         /\ Offers(downlink[w]) = {}
         /\ \A m \in dropped : m.kind # "offer" )
       => /\ Cardinality(Offers(received[w])) = 1
          /\ \A i \in Offers(received[w]) : received[w][i].senderId = p

\* The responder joined, then received the one offer of the initiator.
C3_Witness ==
  /\ Cardinality(Offers(received["worker-1"])) = 1
  /\ received["worker-1"][1].senderId = "patient-1"
  /\ dropped = {}

\* C4: a candidate that arrives before the remote description is set is
\* buffered until then and applied once it is set; every candidate that has
\* arrived is either buffered or applied, once.
C4_CandidatesNeverDropped ==
  /\ receivedCandidates = SeqToSet(pendingCandidates) \cup SeqToSet(appliedCandidates)
  /\ Len(pendingCandidates) + Len(appliedCandidates) = Cardinality(receivedCandidates)
  /\ remoteDescription # "set" =>
       /\ appliedCandidates = <<>>
       /\ earlyCandidates = SeqToSet(pendingCandidates)
  /\ remoteDescription = "set" =>
       /\ pendingCandidates = <<>>
       /\ earlyCandidates \subseteq SeqToSet(appliedCandidates)

\* Two candidates came early, one after the description was set; all three
\* have been applied.
C4_Witness ==
  /\ remoteDescription = "set"
  /\ Cardinality(earlyCandidates) = 2
  /\ Len(appliedCandidates) = 3

\* C5: all clients of an appointment that hold session data hold the same
\* sessionId, the id of the appointment's only session row; a later create
\* call is answered with that row and adds none.
C5_SameSessionId ==
  /\ \A c1, c2 \in Clients :
       ( /\ AppointmentOf(c1) = AppointmentOf(c2)
         /\ sessionData[c1] # NULL
         /\ sessionData[c2] # NULL )
       => sessionData[c1].sessionId = sessionData[c2].sessionId
  /\ \A c \in Clients :
       sessionData[c] # NULL =>
         {r.id : r \in ActiveSessions(AppointmentOf(c))} = {sessionData[c].sessionId}

\* Patient and worker both bootstrapped appointment 1 through create (none
\* through the join fallback) and hold session data.
C5_Witness ==
  /\ sessionData["patient-1"] # NULL
  /\ sessionData["worker-1"] # NULL
  /\ cpc["patient-1"] \in {"initializing", "attached"}
  /\ cpc["worker-1"] \in {"initializing", "attached"}

\* C6: an appointment never has two session rows; no client is in an error
\* state; a client that lost the create race holds the winner's sessionId.
C6_SingleWinner ==
  /\ \A a \in Appointments :
       Cardinality({r \in videoSessions : r.appointmentId = a}) <= 1
  /\ \A c \in Clients :
       /\ cpc[c] # "error"
       /\ clientError[c] = NULL
       /\ cpc[c] = "joined" =>
            /\ sessionData[c] # NULL
            /\ \E r \in videoSessions :
                 /\ r.appointmentId = AppointmentOf(c)
                 /\ r.id = sessionData[c].sessionId

\* A client lost the race and was redirected to join.
C6_Witness == \E c \in Clients : cpc[c] = "joined" /\ sessionData[c] # NULL

\* C7: the stored grade of the latest sample is the first satisfied bucket
\* of the table (strict comparisons): loss < 1 %, RTT < 100 ms, jitter < 10 ms
\* excellent; < 3 %, < 200 ms, < 20 ms good; < 5 %, < 300 ms, < 30 ms fair;
\* otherwise poor.
C7_GradeIsFirstBucket ==
  (~qualityEffect["m1"] /\ metrics["m1"] # NULL) =>
    LET m == metrics["m1"]
        g == qualityLevel["m1"]
        excellent == m.packetLossRate < 10 /\ m.rtt < 100 /\ m.jitter < 10
        good == m.packetLossRate < 30 /\ m.rtt < 200 /\ m.jitter < 20
        fair == m.packetLossRate < 50 /\ m.rtt < 300 /\ m.jitter < 30
    IN /\ (g = "excellent") <=> excellent
       /\ (g = "good") <=> (~excellent /\ good)
       /\ (g = "fair") <=> (~excellent /\ ~good /\ fair)
       /\ (g = "poor") <=> (~excellent /\ ~good /\ ~fair)
       /\ m = [packetLossRate |-> 9, rtt |-> 90, jitter |-> 5] => g = "excellent"
       /\ m = [packetLossRate |-> 11, rtt |-> 90, jitter |-> 5] => g = "good"

\* The sample loss = 0.011, RTT = 90, jitter = 0.005 has been graded good.
C7_Witness ==
  /\ ~qualityEffect["m1"]
  /\ metrics["m1"] = [packetLossRate |-> 11, rtt |-> 90, jitter |-> 5]
  /\ qualityLevel["m1"] = "good"

\* C8: two monitors whose latest samples are equal show the same grade,
\* whatever samples each was given before.
C8_NoMemory ==
  ( /\ ~qualityEffect["m1"] /\ ~qualityEffect["m2"]
    /\ metrics["m1"] # NULL
    /\ metrics["m1"] = metrics["m2"] )
  => ShownGrade("m1") = ShownGrade("m2")

\* Both monitors have graded the same sample, away from the initial grade.
C8_Witness ==
  /\ ~qualityEffect["m1"] /\ ~qualityEffect["m2"]
  /\ metrics["m1"] # NULL
  /\ metrics["m1"] = metrics["m2"]
  /\ qualityLevel["m1"] = "poor"
  /\ qualityLevel["m2"] = "poor"

\* C9: the retryCount of the surfaced ConnectionError is between 0 and 3.
C9_RetryCountBounded ==
  connectionError # NULL =>
    (connectionError.retryCount >= 0 /\ connectionError.retryCount <= 3)

\* Retry has been pressed until the count reached 3.
C9_Witness == connectionError # NULL /\ connectionError.retryCount = 3

ManagerFrame(m) == <<m.state, m.error, m.conn, m.ice, m.held, m.audio.live, m.video.live>>

\* C12: a press of a mute control changes only the enabled flag of the local
\* tracks of its kind: the connection state, the ICE state, the identity of
\* the local stream, the managers, the liveness of every track and the other
\* kind's flags stay as they were, and no signaling message or offer is sent.
C12_ToggleChangesOnlyEnabledFlag ==
  [][ hostMediaControls' # hostMediaControls =>
        /\ connectionState' = connectionState
        /\ iceConnectionState' = iceConnectionState
        /\ localStream' = localStream
        /\ webrtcManagerRef' = webrtcManagerRef
        /\ signalsSent' = signalsSent
        /\ offersCreated' = offersCreated
        /\ joined' = joined
        /\ \A id \in ManagerIds : ManagerFrame(mgr'[id]) = ManagerFrame(mgr[id])
        /\ \A id \in ManagerIds \ {localStream} : mgr'[id] = mgr[id]
        /\ hostMediaControls'.audio # hostMediaControls.audio =>
             /\ hostMediaControls'.video = hostMediaControls.video
             /\ mediaControls'.video = mediaControls.video
             /\ \A id \in ManagerIds : mgr'[id].video = mgr[id].video
        /\ hostMediaControls'.video # hostMediaControls.video =>
             /\ hostMediaControls'.audio = hostMediaControls.audio
             /\ mediaControls'.audio = mediaControls.audio
             /\ \A id \in ManagerIds : mgr'[id].audio = mgr[id].audio ]_vars

\* The microphone was muted on a connected call: the audio track is disabled
\* and live, the video track enabled.
C12_Witness ==
  /\ localStream # NoStream
  /\ connectionState = "connected"
  /\ iceConnectionState = "connected"
  /\ mgr[localStream].audio = [enabled |-> FALSE, live |-> TRUE]
  /\ mgr[localStream].video = [enabled |-> TRUE, live |-> TRUE]
  /\ ~mediaControls.audio


C14_TransientDisconnectSurfacesNothing ==
  [][ ( \/ connectionState = "connected" /\ connectionState' = "disconnected"
        \/ connectionState = "disconnected" /\ connectionState' = "connected" ) =>
        /\ callError' = callError
        /\ showRetryButton' = showRetryButton
        /\ \A id \in ManagerIds : mgr'[id].state = mgr[id].state ]_vars


\* C15: one hangup triggers exactly one termination callback to the host: the
\* route's onSessionEnd has been called once for every press of the end-call
\* button, never a second time for the same hangup.
C15_OneCallbackPerHangup == sessionEndCalls = hangups


\* What a hangup may change of the client: everything but the bookkeeping of
\* the hangup itself (timers, requests in flight, callbacks made).
ClientState ==
  <<initPc, callSession, webrtcManagerRef, mgr, localStream, connectionState,
    iceConnectionState, callError, showRetryButton, mediaControls, hostMediaControls,
    offerTimers, offersCreated, joined, signalsSent>>

C17_TeardownBeforeEndResponse ==
  \A i \in 1..Len(endRequests) :
    /\ sessionEndCalls >= 1
    /\ endRequests[i].manager # NoManager =>
         /\ mgr[endRequests[i].manager].state \in {"closed", "failed"}
         /\ ~mgr[endRequests[i].manager].held
         /\ ~mgr[endRequests[i].manager].audio.live
         /\ ~mgr[endRequests[i].manager].video.live

\* The end request of an attached call is in flight, unanswered, and the
\* call is already torn down.
C17_Witness ==
  /\ page = "mounted"
  /\ Len(endRequests) = 1
  /\ endRequests[1].manager \in joined
  /\ mgr[endRequests[1].manager].state = "closed"
  /\ hangups = 1
  /\ sessionEndCalls = 1


\* C18: on every path by which the client's connection attempt enters failed
\* or closed (hangup, unmount, failure during initialization, connection
\* failure), every local media track that was acquired has been stopped:
\* when the manager of the ref is failed or closed, no track is live.
C18_NoLiveTrackAfterFailedOrClosed ==
  ( /\ webrtcManagerRef # NoManager
    /\ mgr[webrtcManagerRef].state \in {"failed", "closed"} ) =>
    \A id \in ManagerIds : ~mgr[id].audio.live /\ ~mgr[id].video.live


Identity(p) ==
  [sessionId |-> p.sessionId, userId |-> p.userId, userType |-> p.userType, role |-> p.role]

\* C20: join is idempotent: a join of a participant the session already has
\* adds no second entry for it and changes neither its role nor the other
\* participants; only its joinedAt is updated.
C20_RejoinOnlyUpdatesJoinedAt ==
  [][ \A p \in participants :
        ( /\ joinClock'[p.userId] = joinClock[p.userId] + 1
          /\ \E q \in participants' :
               /\ q.sessionId = p.sessionId /\ q.userId = p.userId
               /\ q.joinedAt = joinClock'[p.userId] ) =>
          /\ {Identity(q) : q \in participants'} = {Identity(q) : q \in participants}
          /\ Cardinality(participants') = Cardinality(participants)
          /\ Cardinality({q \in participants' :
                            q.sessionId = p.sessionId /\ q.userId = p.userId}) = 1
          /\ \A q \in participants :
               (q.sessionId # p.sessionId \/ q.userId # p.userId) => q \in participants' ]_vars

\* The patient and the worker of appointment 1 are attached, the registry
\* has served a second join of the worker and holds two entries.
C20_Witness ==
  /\ cpc["patient-1"] = "attached"
  /\ cpc["worker-1"] = "attached"
  /\ joinClock["worker-1"] = 2
  /\ joinClock["patient-1"] = 1
  /\ Cardinality(ParticipantsOf(sessionData["worker-1"].sessionId)) = 2
  /\ \E p \in participants : p.userId = "worker-1" /\ p.joinedAt = 2 /\ p.role = "responder"


\* C21: create-offer is invoked only by the initiator (the patient), and only
\* for a manager whose initialize has resolved (media acquired, transport
\* attached); a responder neither schedules nor creates an offer.
C21_OfferOnlyByInitiatorAfterInit ==
  [][ /\ \A id \in offerTimers' \cup offersCreated' :
           userType' = "patient" /\ id \in joined'
      /\ \A id \in offerTimers \ offerTimers' :
           page' # "unloaded" => userType = "patient" /\ id \in joined ]_vars

\* The patient's manager resolved its initialize and created its offer; the
\* timeout is spent.
C21_Witness ==
  /\ userType = "patient"
  /\ webrtcManagerRef \in offersCreated
  /\ webrtcManagerRef \in joined
  /\ offerTimers = {}
  /\ mgr[webrtcManagerRef].state = "attached"


C23_ManagerFailureSurfaced ==
  [][ \A id \in ManagerIds :
        (mgr[id].state # "failed" /\ mgr'[id].state = "failed") =>
          \/ connectionError' # NULL /\ connectionError'.message = mgr'[id].error
               /\ connectionError'.type = ErrorTypeOf(mgr'[id].error)
               /\ connectionError'.retryCount = 0
          \/ networkError' = mgr'[id].error /\ errorEffect' ]_vars


\* C24: at most one ConnectionError is surfaced: the effect run for a new
\* failure replaces the error surfaced before by the new one (retryCount 0);
\* a dismissal leaves no auto-dismiss pending once its effect has run, and a
\* pending auto-dismiss always belongs to the error now surfaced, so that it
\* clears no error before 10 seconds have passed since that error's creation.
C24_OneErrorDismissCancelsTimer ==
  /\ []( (connectionError = NULL /\ ~errorEffect) => reconnectTimer = NULL )
  /\ []( (connectionError # NULL /\ reconnectTimer # NULL) =>
           reconnectTimer.due = errorCreatedAt + AutoDismissSeconds )
  /\ [][ (errorEffect /\ ~errorEffect' /\ networkError # NULL) =>
           /\ connectionError' = [message |-> networkError,
                                  type |-> ErrorTypeOf(networkError),
                                  timestamp |-> now, retryCount |-> 0]
           /\ reconnectTimer' = [due |-> now + AutoDismissSeconds] ]_vars
  /\ [][ ( /\ reconnectTimer # NULL /\ reconnectTimer' = NULL
           /\ connectionError # NULL /\ connectionError' = NULL ) =>
           now >= errorCreatedAt + AutoDismissSeconds ]_vars

\* An error was dismissed before its 10 seconds were over: nothing is
\* surfaced, and the effect that cancels its auto-dismiss is about to run.
C24_Witness ==
  /\ connectionError = NULL
  /\ networkError = NULL
  /\ errorEffect
  /\ reconnectTimer # NULL
  /\ now < reconnectTimer.due


\* C25: the re-runs of session initialization triggered by the retry control
\* are at most 3 for one mounted call: after the third the control starts no
\* further initialization.
C25_AtMostThreeRetries == retryClicks <= RetryCap


\* The managers constructed and not disconnected or failed.
LiveManagers == {id \in ManagerIds : mgr[id].state \in {"constructed", "attached"}}

\* C26: a client holds at most one live (not disconnected) connection manager
\* at any time: when initialization is run again, the manager constructed
\* before has been disconnected before the new one is constructed.
C26_AtMostOneLiveManager == Cardinality(LiveManagers) <= 1


\* C27: create-offer is never invoked on a manager after that manager was
\* disconnected: when the createOffer timeout of a manager fires, the manager
\* is not closed, so a hangup or unmount between the resolved initialize and
\* the timeout prevents the offer.
C27_NoOfferAfterDisconnect ==
  [][ \A id \in offerTimers \ offerTimers' :
        page' # "unloaded" => mgr[id].state # "closed" ]_vars


\* No media-control effect has work left to do.
ControlsQuiescent == ~(localStream # NoStream /\ hostMediaControls # mediaControls)

\* C28: handling one press of the audio (video) control terminates after one
\* call of the component's toggle and flips the state once; in every
\* quiescent state with a local stream the host's flag, the component's flag
\* and the enabled flag of the local tracks of each kind are equal.
C28_PressFlipsOnceAllEqual ==
  /\ [](toggleCalls <= 1)
  /\ []( (page = "mounted" /\ localStream # NoStream /\ ControlsQuiescent) =>
           \A kind \in Kinds :
             /\ hostMediaControls[kind] = mediaControls[kind]
             /\ mgr[localStream][kind].enabled = mediaControls[kind] )
  /\ [][ toggleCalls' # toggleCalls =>
           \E kind \in Kinds :
             /\ hostMediaControls'[kind] = ~hostMediaControls[kind]
             /\ \A other \in Kinds \ {kind} :
                  hostMediaControls'[other] = hostMediaControls[other] ]_vars


\* C29: every successful bootstrap, the one through the join fallback
\* included, is followed by the construction and initialization of a
\* connection manager for the session: once initializeSession has finished
\* with session data and without an error, the ref holds a manager that was
\* initialized (it acquired media and attached, or failed trying).
C29_BootstrapFollowedByManager ==
  (initPc = "done" /\ callSession # NULL /\ callError = NULL) =>
    /\ webrtcManagerRef # NoManager
    /\ mgr[webrtcManagerRef].state # "constructed"
    /\ webrtcManagerRef \in joined


\* C30: after any sequence of MediaManager operations every acquired track
\* the manager no longer references has been stopped, at most one screen
\* track is live, an ended event of a superseded screen track leaves the
\* current one live and referenced, and after stopAllStreams no acquired
\* track is live and isReady() is false.
C30_NoTrackLeftRunning ==
  /\ [](\A t \in TrackIds :
          (trackKind[t] # "none" /\ t \notin Referenced) => t \notin liveTracks)
  /\ [](Cardinality({t \in liveTracks : trackKind[t] = "screen"}) <= 1)
  /\ [](lastOperation = "stopAllStreams" => (liveTracks = {} /\ ~isReady))
  /\ [][ ( /\ lastOperation' = "ended"
           /\ tracks.screenTrack \in liveTracks
           /\ \E t \in liveTracks \ liveTracks' : t # tracks.screenTrack ) =>
           /\ tracks'.screenTrack = tracks.screenTrack
           /\ tracks.screenTrack \in liveTracks' ]_vars

====
